---- MODULE Spec2Model ----
(***************************************************************************)
(* Model of matthewd98/goutils: the two merge-request / branch cleanup     *)
(* scripts (src/slices/slices.go, lines 176-495 and 497-926) and the pure  *)
(* helpers they use, the config sort linter (src/unnamed/part_002), the    *)
(* panic-recovery helpers (src/unnamed/part_000), maps.Merge and           *)
(* slices.Max / slices.Min.  Each component has its own specification; the *)
(* variables of the other components stay at their idle values.            *)
(*                                                                         *)
(* A string is a sequence of one-character strings, so that the regular    *)
(* expression of the scripts is computed character by character.           *)
(***************************************************************************)
EXTENDS Integers, Sequences, FiniteSets, TLC

(***************************************************************************)
(* Bounds of the model.                                                    *)
(***************************************************************************)
\* Longest merge-request title of the title specification.
MaxTitleLen == 6

\* Most branches, and most open merge requests, the source-control server holds.
MaxBranches == 2

MaxMRs == 2

\* Items per page of a list call: stands for maxPerPage (100), scaled down so
\* that a listing of MaxMRs items has several pages.
PerPage == 1

(***************************************************************************)
(* Characters.  One representative per class the regular expression        *)
(* distinguishes: "x" (any other character), " " (\s), "[", "]", "-",      *)
(* "9" ([0-9], also in [A-Z0-9]) and "K" ([A-Z], not a digit).  No "\n":   *)
(* a title is one line, and "." matches every character of it.             *)
(***************************************************************************)
Chars == {"x", " ", "[", "]", "-", "9", "K"}

IsSpace(c) == c = " "

IsIssueKeyChar(c) == c \in {"K", "9"}

IsDigit(c) == c = "9"

\* The strings of length at most n over Chars.
StringsUpTo(n) == UNION {[1..k -> Chars] : k \in 0..n}

(***************************************************************************)
(* mrTitleRegex: group 1 is "any characters, greedy"; then optional white  *)
(* space, greedy; then "[", group 2 = one or more of [A-Z0-9], "-", one or *)
(* more of [0-9], and "]".  The expression is not anchored.               *)
(***************************************************************************)
\* The positions e at which the bracketed token, started at position w of t,
\* can end (position of the closing bracket).
TokenEnds(t, w) ==
    {e \in (w + 4)..Len(t) :
        /\ w >= 1
        /\ t[w] = "["
        /\ t[e] = "]"
        /\ \E d \in (w + 2)..(e - 2) :
              /\ t[d] = "-"
              /\ \A k \in (w + 1)..(d - 1) : IsIssueKeyChar(t[k])
              /\ \A k \in (d + 1)..(e - 1) : IsDigit(t[k])}

\* The matches of the whole expression that start at position s: group 1 is
\* t[s..g-1], the white space is t[g..w-1], the bracketed token is t[w..e].
MatchesAt(t, s) ==
    LET gw == {p \in (s..(Len(t) + 1)) \X (s..Len(t)) :
                 /\ p[1] <= p[2]
                 /\ t[p[2]] = "["
                 /\ \A k \in p[1]..(p[2] - 1) : IsSpace(t[k])}
    IN  UNION { {<<p[1], p[2], e>> : e \in TokenEnds(t, p[2])} : p \in gw }

\* Of a set of matches with the same start, the one a leftmost-first
\* (backtracking) matcher reports: the greedy group 1 as long as possible,
\* then the greedy white space as long as possible, then the longest token.
Preferred(ms) ==
    CHOOSE m \in ms :
        \A n \in ms :
            \/ m[1] > n[1]
            \/ m[1] = n[1] /\ m[2] > n[2]
            \/ m[1] = n[1] /\ m[2] = n[2] /\ m[3] >= n[3]

\* regexp.FindStringSubmatch: nil (the empty sequence) when nothing matches,
\* otherwise <<whole match, group 1, group 2>> of the leftmost match.
FindStringSubmatch(t) ==
    LET starts == {s \in 1..(Len(t) + 1) : MatchesAt(t, s) # {}}
    IN  IF starts = {}
        THEN <<>>
        ELSE LET s == CHOOSE x \in starts : \A y \in starts : x <= y
                 m == Preferred(MatchesAt(t, s))
             IN  <<SubSeq(t, s, m[3]),
                   SubSeq(t, s, m[1] - 1),
                   SubSeq(t, m[2] + 1, m[3] - 1)>>

\* Mutant of getJiraIssueID: the index of the first group for that of the second.
getJiraIssueID_firstGroup(title) ==
    LET matches == FindStringSubmatch(title)
    IN  IF Len(matches) = 3 THEN matches[2] ELSE <<>>

\* getJiraIssueID: the issue reference of a title, "" when it has none.
getJiraIssueID(title) ==
    LET matches == FindStringSubmatch(title)
    IN  IF Len(matches) = 3 THEN matches[3] ELSE <<>>

\* fmt.Sprintf("[<https://jira.YOURDOMAIN.com/browse/%s|%s>]", id, id)
JiraURL(id) == <<"[", "<">> \o id \o <<"|">> \o id \o <<">", "]">>

\* parseMRTitle: <<display title, issue link>>.
parseMRTitle(title) ==
    LET matches == FindStringSubmatch(title)
    IN  IF Len(matches) # 3
        THEN <<title, <<>>>>
        ELSE <<matches[2], JiraURL(matches[3])>>

(***************************************************************************)
(* Time.  A date is a number of months; Before is <.                       *)
(***************************************************************************)
\* time.Now(), the same in every call of one run (a run lasts seconds, the
\* thresholds are months).
Now == 7

\* time.Now().AddDate(0, months, 0)
AddDate(months) == Now + months

\* t.Before(u)
Before(t, u) == t < u

(***************************************************************************)
(* The world of a run: what the source-control server holds.               *)
(***************************************************************************)
\* Last-commit dates of branches: before, and exactly, six months ago.
BranchDates == {Now - 7, Now - 6}

\* Last-update dates of merge requests: before three months ago, exactly
\* three months ago (before two months ago), exactly two months ago.
MRDates == {Now - 4, Now - 3, Now - 2}

\* Titles of merge requests: no reference, a trailing reference, a leading
\* reference followed by text (another issue).
PlainTitle == <<"x">>

MRTitles ==
    { PlainTitle,
      <<"x", " ", "[", "9", "-", "9", "]">>,
      <<"[", "K", "-", "9", "]", "x">> }

\* mr.Author.Username of the merge request with internal id iid.
AuthorOf(iid) == IF iid % 2 = 1 THEN "u1" ELSE "u2"

\* The chat user id the chat server holds for an author.
SlackIDOf(author) == IF author = "u1" THEN "U1" ELSE "U2"

\* gitlab.Branch: Name, Protected, Commit.CommittedDate.
BranchLists ==
    UNION { { [i \in 1..n |-> [Name |-> i,
                               Protected |-> f[i][1],
                               CommittedDate |-> f[i][2]]] :
                f \in [1..n -> BOOLEAN \X BranchDates] } : n \in 0..MaxBranches }

\* gitlab.MergeRequest: IID, Title, Author.Username, UpdatedAt.
MRLists ==
    UNION { { [i \in 1..n |-> [IID |-> i,
                               Title |-> f[i][1],
                               Author |-> AuthorOf(i),
                               UpdatedAt |-> f[i][2]]] :
                f \in [1..n -> MRTitles \X MRDates] } : n \in 0..MaxMRs }

\* One fixed listing of each kind: a branch to delete and a protected one; a
\* merge request that is stale and expired.
SomeBranches ==
    << [Name |-> 1, Protected |-> FALSE, CommittedDate |-> Now - 7],
       [Name |-> 2, Protected |-> TRUE, CommittedDate |-> Now - 7] >>

SomeMRs ==
    << [IID |-> 1, Title |-> PlainTitle, Author |-> AuthorOf(1), UpdatedAt |-> Now - 4] >>

\* The worlds a run is checked in.  Script 1 lists no branches.  For script 2
\* one side varies over all its listings while the other is the fixed one
\* (the two halves of its main share no data).
Worlds(s) ==
    IF s = 1
    THEN {<<>>} \X MRLists
    ELSE (BranchLists \X {SomeMRs}) \cup ({SomeBranches} \X MRLists)

\* A list call of the server: Page 0 (the option left unset) is page 1.
PageNumber(page) == IF page = 0 THEN 1 ELSE page

PageItems(items, page) ==
    LET p == PageNumber(page)
        last == IF p * PerPage < Len(items) THEN p * PerPage ELSE Len(items)
    IN  SubSeq(items, (p - 1) * PerPage + 1, last)

\* resp.NextPage: 0 on the last page.
NextPage(items, page) ==
    LET p == PageNumber(page)
    IN  IF p * PerPage < Len(items) THEN p + 1 ELSE 0

\* What a source-control call can answer: a client error (err != nil), or a
\* response with a status code and err == nil.
GitLabResponses == {"err", "200", "400", "500"}

StatusCode(res) == IF res = "200" THEN 200 ELSE IF res = "400" THEN 400 ELSE 500

\* What an issue-tracker query can answer: an issue with a status name, or an
\* error with a response of some status code, or an error with no response.
JiraResponses == {"Closed", "Open", "404", "400", "500", "err"}

SlackResponses == {"ok", "err"}

(***************************************************************************)
(* State of a run of a cleanup script.                                     *)
(***************************************************************************)
VARIABLES
    script,          \* 1: src/slices/slices.go 176-495, 2: 497-926
    isDryRun,        \* the dry-run flag of parseArgs
    pc,              \* the position of main
    gitlabBranches,  \* the branches the server holds
    gitlabMRs,       \* the open merge requests the server holds
    page,            \* options.ListOptions.Page
    branches,        \* main: branches
    staleBranches,   \* main: staleBranches
    mrs,             \* main: mrs
    staleMRs,        \* main: staleMRs
    expiredMRs,      \* closeExpiredMergeRequests / main: expiredMRs
    idx,             \* index of the loop being run
    slackUserIDByGitLabUserID,
    calls,           \* the external calls made so far, in order
    posted,          \* the lines of the message given to PostMessage
    title,           \* title specification: the title
    parsed           \* title specification: <<getJiraIssueID, parseMRTitle>>

runVars == <<script, isDryRun, pc, gitlabBranches, gitlabMRs, page, branches,
             staleBranches, mrs, staleMRs, expiredMRs, idx,
             slackUserIDByGitLabUserID, calls, posted>>

titleVars == <<title, parsed>>

(***************************************************************************)
(* State of the config sort linter (src/unnamed/part_002, main).           *)
(***************************************************************************)
VARIABLES
    file,            \* the lines of the file, as scanner.Scan yields them
    scanned,         \* the number of lines scanner.Scan has yielded
    previousTable,
    previousKey,
    exit,            \* how the linter ended
    compared         \* the numbers of the lines that were compared

lintVars == <<file, scanned, previousTable, previousKey, exit, compared>>

(***************************************************************************)
(* State of the goroutines that defer a panic-recovery helper              *)
(* (src/unnamed/part_000), one entry per goroutine.                        *)
(***************************************************************************)
VARIABLES
    deferred,        \* the helper the goroutine deferred
    direct,          \* TRUE: deferred directly; FALSE: called from another
                     \* deferred function
    cleanup,         \* what the cleanup function does when called
    gpc,             \* the position of the goroutine
    panicking,       \* the value of the panic under way, or "none"
    err,             \* err of the helper: what recover returned ("none": nil)
    trace,           \* what was logged and the cleanup calls, in order
    ended            \* how the body of the goroutine ended

recoverVars == <<deferred, direct, cleanup, gpc, panicking, err, trace, ended>>

(***************************************************************************)
(* State of a call of maps.Merge (src/maps/maps.go): maps are references   *)
(* into a heap; address 0 is the nil map.                                  *)
(***************************************************************************)
VARIABLES
    heap,            \* the content of each allocated map
    m1,              \* the address given as m1
    m2,              \* the address given as m2
    merged           \* the address Merge returned, 0 before the call

mergeVars == <<heap, m1, m2, merged>>

(***************************************************************************)
(* State of a call of slices.Max and slices.Min (src/slices/slices.go).    *)
(***************************************************************************)
VARIABLES
    slice,           \* the argument items
    maxOf,           \* <<Max(items)>> once Max has returned
    minOf            \* <<Min(items)>> once Min has returned

extremumVars == <<slice, maxOf, minOf>>

\* The state of the library components.
libVars == <<lintVars, recoverVars, mergeVars, extremumVars>>

vars == <<runVars, titleVars, libVars>>

Call(api, mr, arg, res) == [api |-> api, mr |-> mr, arg |-> arg, res |-> res]

\* The empty map.
EmptyMap == [a \in {} |-> "Unknown"]

\* No title is being parsed.
TitleIdle == title = <<>> /\ parsed = <<>>

\* The linter is not running.
LintIdle ==
    /\ file = <<>>
    /\ scanned = 0
    /\ previousTable = <<>>
    /\ previousKey = <<>>
    /\ exit = "idle"
    /\ compared = <<>>

\* No goroutine was started.
RecoverIdle ==
    /\ deferred = <<>>
    /\ direct = <<>>
    /\ cleanup = <<>>
    /\ gpc = <<>>
    /\ panicking = <<>>
    /\ err = <<>>
    /\ trace = <<>>
    /\ ended = <<>>

\* Merge is not being called.
MergeIdle == heap = <<>> /\ m1 = 0 /\ m2 = 0 /\ merged = 0

\* Max and Min are not being called.
ExtremumIdle == slice = <<>> /\ maxOf = <<>> /\ minOf = <<>>

\* No library component is in use.
LibIdle == LintIdle /\ RecoverIdle /\ MergeIdle /\ ExtremumIdle

\* No script is running.
RunIdle ==
    /\ script = 0
    /\ isDryRun = FALSE
    /\ pc = "idle"
    /\ gitlabBranches = <<>>
    /\ gitlabMRs = <<>>
    /\ page = 0
    /\ branches = <<>>
    /\ staleBranches = <<>>
    /\ mrs = <<>>
    /\ staleMRs = <<>>
    /\ expiredMRs = <<>>
    /\ idx = 1
    /\ slackUserIDByGitLabUserID = EmptyMap
    /\ calls = <<>>
    /\ posted = <<>>

Init ==
    /\ script \in {1, 2}
    /\ isDryRun \in BOOLEAN
    /\ \E w \in Worlds(script) : gitlabBranches = w[1] /\ gitlabMRs = w[2]
    /\ pc = IF script = 1 THEN "getMergeRequests" ELSE "getBranches"
    /\ page = 0
    /\ branches = <<>>
    /\ staleBranches = <<>>
    /\ mrs = <<>>
    /\ staleMRs = <<>>
    /\ expiredMRs = <<>>
    /\ idx = 1
    /\ slackUserIDByGitLabUserID = EmptyMap
    /\ calls = <<>>
    /\ posted = <<>>
    /\ TitleIdle
    /\ LibIdle

(***************************************************************************)
(* Script 2, branches (main, lines 548-558).                               *)
(***************************************************************************)
\* The items of a list response: those of the page when the status is 200,
\* none in an error response.
ResponseItems(items, pg, res) == IF res = "200" THEN PageItems(items, pg) ELSE <<>>

ResponseNextPage(items, pg, res) == IF res = "200" THEN NextPage(items, pg) ELSE 0

\* getBranches: one pass of its loop, one ListBranches call.
getBranches ==
    /\ pc = "getBranches"
    /\ \E res \in GitLabResponses :
          /\ calls' = Append(calls, Call("ListBranches", 0, page, res))
          /\ IF res = "err" \/ StatusCode(res) >= 400
             THEN /\ pc' = "exit1"
                  /\ UNCHANGED <<branches, page>>
             ELSE /\ branches' = branches \o ResponseItems(gitlabBranches, page, res)
                  /\ IF ResponseNextPage(gitlabBranches, page, res) = 0
                     THEN /\ pc' = "filterStaleNonProtectedBranches"
                          /\ page' = page
                     ELSE /\ pc' = pc
                          /\ page' = ResponseNextPage(gitlabBranches, page, res)
    /\ UNCHANGED <<script, isDryRun, gitlabBranches, gitlabMRs, staleBranches, mrs,
                   staleMRs, expiredMRs, idx, slackUserIDByGitLabUserID, posted,
                   titleVars, libVars>>

\* Mutant of IsStaleNonProtected: the protected flag is not looked at.
IsStaleNonProtected_anyProtection(b) == Before(b.CommittedDate, AddDate(-6))

\* The condition of filterStaleNonProtectedBranches.
IsStaleNonProtected(b) == ~b.Protected /\ Before(b.CommittedDate, AddDate(-6))

filterStaleNonProtectedBranches ==
    /\ pc = "filterStaleNonProtectedBranches"
    /\ staleBranches' = SelectSeq(branches, IsStaleNonProtected)
    /\ pc' = "deleteStaleBranches"
    /\ idx' = 1
    /\ UNCHANGED <<script, isDryRun, gitlabBranches, gitlabMRs, page, branches, mrs,
                   staleMRs, expiredMRs, slackUserIDByGitLabUserID, calls, posted,
                   titleVars, libVars>>

\* deleteStaleBranches: its return in a dry run or after the loop, or one
\* pass of its loop, one DeleteBranch call.
deleteStaleBranches ==
    /\ pc = "deleteStaleBranches"
    /\ IF isDryRun \/ idx > Len(staleBranches)
       THEN /\ pc' = "getMergeRequests"
            /\ idx' = 1
            /\ page' = 0
            /\ calls' = calls
       ELSE \E res \in GitLabResponses :
               /\ calls' = Append(calls, Call("DeleteBranch", 0, staleBranches[idx].Name, res))
               /\ page' = page
               /\ IF res = "err" \/ StatusCode(res) >= 400
                  THEN pc' = "exit1" /\ idx' = idx
                  ELSE pc' = pc /\ idx' = idx + 1
    /\ UNCHANGED <<script, isDryRun, gitlabBranches, gitlabMRs, branches, staleBranches,
                   mrs, staleMRs, expiredMRs, slackUserIDByGitLabUserID, posted,
                   titleVars, libVars>>

(***************************************************************************)
(* Merge requests (main, lines 228-252 and 562-586).                       *)
(***************************************************************************)
\* The status check of script 1 (resp.StatusCode > 400) and of script 2
\* (resp.StatusCode >= 400).
IsErrorStatus(code) == IF script = 1 THEN code > 400 ELSE code >= 400

\* getMergeRequests of script 1: one ListProjectMergeRequests call.
getMergeRequests1 ==
    /\ pc = "getMergeRequests"
    /\ script = 1
    /\ \E res \in GitLabResponses :
          /\ calls' = Append(calls, Call("ListProjectMergeRequests", 0, page, res))
          /\ IF res = "err" \/ StatusCode(res) > 400
             THEN pc' = "exit1" /\ mrs' = mrs
             ELSE /\ mrs' = ResponseItems(gitlabMRs, page, res)
                  /\ pc' = "filterStaleMergeRequests"
    /\ UNCHANGED <<script, isDryRun, gitlabBranches, gitlabMRs, page, branches,
                   staleBranches, staleMRs, expiredMRs, idx,
                   slackUserIDByGitLabUserID, posted, titleVars, libVars>>

\* getMergeRequests of script 2: one pass of its loop.
getMergeRequests2 ==
    /\ pc = "getMergeRequests"
    /\ script = 2
    /\ \E res \in GitLabResponses :
          /\ calls' = Append(calls, Call("ListProjectMergeRequests", 0, page, res))
          /\ IF res = "err" \/ StatusCode(res) >= 400
             THEN /\ pc' = "exit1"
                  /\ UNCHANGED <<mrs, page>>
             ELSE /\ mrs' = mrs \o ResponseItems(gitlabMRs, page, res)
                  /\ IF ResponseNextPage(gitlabMRs, page, res) = 0
                     THEN /\ pc' = "filterStaleMergeRequests"
                          /\ page' = page
                     ELSE /\ pc' = pc
                          /\ page' = ResponseNextPage(gitlabMRs, page, res)
    /\ UNCHANGED <<script, isDryRun, gitlabBranches, gitlabMRs, branches,
                   staleBranches, staleMRs, expiredMRs, idx,
                   slackUserIDByGitLabUserID, posted, titleVars, libVars>>

\* The condition of getStaleMergeRequests / filterStaleMergeRequests.
IsStale(mr) == Before(mr.UpdatedAt, AddDate(-2))

\* getStaleMergeRequests (script 1), filterStaleMergeRequests (script 2).
filterStaleMergeRequests ==
    /\ pc = "filterStaleMergeRequests"
    /\ staleMRs' = SelectSeq(mrs, IsStale)
    /\ pc' = "closeExpiredMergeRequests"
    /\ idx' = 1
    /\ UNCHANGED <<script, isDryRun, gitlabBranches, gitlabMRs, page, branches,
                   staleBranches, mrs, expiredMRs, slackUserIDByGitLabUserID, calls,
                   posted, titleVars, libVars>>

\* Mutant of IsOld: the threshold of the stale list.
IsOld_twoMonths(mr) == Before(mr.UpdatedAt, AddDate(-2))

\* The age condition of closeExpiredMergeRequests.
IsOld(mr) == Before(mr.UpdatedAt, AddDate(-3))

\* The status code is not looked at: any error that comes with a response.
IsNotFound_anyResponse(res) == res \in {"404", "400", "500"}

\* resp != nil && resp.StatusCode == 404, of an issue query that failed.
IsNotFound(res) == res = "404"

\* closeExpiredMergeRequests, first loop: one pass (at most one issue query),
\* or the end of the loop, with the return of a dry run.
closeExpiredMergeRequests_filter ==
    /\ pc = "closeExpiredMergeRequests"
    /\ IF idx > Len(mrs)
       THEN /\ pc' = IF isDryRun THEN "main" ELSE "closeExpiredMergeRequests_close"
            /\ idx' = 1
            /\ UNCHANGED <<expiredMRs, calls>>
       ELSE LET mr == mrs[idx]
                jiraIssueID == getJiraIssueID(mr.Title)
            IN  IF IsOld(mr)
                THEN /\ expiredMRs' = Append(expiredMRs, mr)
                     /\ idx' = idx + 1
                     /\ UNCHANGED <<pc, calls>>
                ELSE IF jiraIssueID = <<>>
                THEN /\ idx' = idx + 1
                     /\ UNCHANGED <<pc, expiredMRs, calls>>
                ELSE \E res \in JiraResponses :
                        /\ calls' = Append(calls, Call("Issue.Get", mr.IID, jiraIssueID, res))
                        /\ IF res \in {"Closed", "Open"}
                           THEN /\ expiredMRs' = IF res = "Closed"
                                                 THEN Append(expiredMRs, mr)
                                                 ELSE expiredMRs
                                /\ idx' = idx + 1
                                /\ pc' = pc
                           ELSE IF IsNotFound(res)
                           THEN /\ idx' = idx + 1
                                /\ UNCHANGED <<pc, expiredMRs>>
                           ELSE /\ pc' = "exit1"
                                /\ UNCHANGED <<idx, expiredMRs>>
    /\ UNCHANGED <<script, isDryRun, gitlabBranches, gitlabMRs, page, branches,
                   staleBranches, mrs, staleMRs, slackUserIDByGitLabUserID, posted,
                   titleVars, libVars>>

\* closeExpiredMergeRequests, second loop: one pass, one UpdateMergeRequest
\* call, or the return after the loop.
closeExpiredMergeRequests_close ==
    /\ pc = "closeExpiredMergeRequests_close"
    /\ IF idx > Len(expiredMRs)
       THEN /\ pc' = "main"
            /\ idx' = 1
            /\ calls' = calls
       ELSE \E res \in GitLabResponses :
               /\ calls' = Append(calls, Call("UpdateMergeRequest", expiredMRs[idx].IID,
                                              expiredMRs[idx].IID, res))
               /\ IF res = "err" \/ IsErrorStatus(StatusCode(res))
                  THEN pc' = "exit1" /\ idx' = idx
                  ELSE pc' = pc /\ idx' = idx + 1
    /\ UNCHANGED <<script, isDryRun, gitlabBranches, gitlabMRs, page, branches,
                   staleBranches, mrs, staleMRs, expiredMRs,
                   slackUserIDByGitLabUserID, posted, titleVars, libVars>>

\* main after closeExpiredMergeRequests returned without error (lines 240, 574).
main ==
    /\ pc = "main"
    /\ pc' = IF Len(staleMRs) = 0 /\ Len(expiredMRs) = 0
             THEN "exit0"
             ELSE "getSlackUserIDsFromGitLabUserIDs"
    /\ idx' = 1
    /\ UNCHANGED <<script, isDryRun, gitlabBranches, gitlabMRs, page, branches,
                   staleBranches, mrs, staleMRs, expiredMRs,
                   slackUserIDByGitLabUserID, calls, posted, titleVars, libVars>>

(***************************************************************************)
(* Notification.                                                           *)
(***************************************************************************)
\* m with key k set to v.
MapSet(m, k, v) == [a \in DOMAIN m \cup {k} |-> IF a = k THEN v ELSE m[a]]

\* getSlackUserIDsFromGitLabUserIDs: one pass of its loop over staleMRs or of
\* its loop over expiredMRs (the same body, run on one list after the other),
\* one GetUserByEmail call; or its return.
getSlackUserIDsFromGitLabUserIDs ==
    /\ pc = "getSlackUserIDsFromGitLabUserIDs"
    /\ LET all == staleMRs \o expiredMRs
       IN  IF idx > Len(all)
           THEN /\ pc' = "inviteUsersToSlackChannel"
                /\ idx' = 1
                /\ UNCHANGED <<slackUserIDByGitLabUserID, calls>>
           ELSE \E res \in SlackResponses :
                   /\ calls' = Append(calls, Call("GetUserByEmail", all[idx].IID,
                                                  all[idx].Author, res))
                   /\ slackUserIDByGitLabUserID' =
                         IF res = "err"
                         THEN slackUserIDByGitLabUserID
                         ELSE MapSet(slackUserIDByGitLabUserID, all[idx].Author,
                                     SlackIDOf(all[idx].Author))
                   /\ idx' = idx + 1
                   /\ pc' = pc
    /\ UNCHANGED <<script, isDryRun, gitlabBranches, gitlabMRs, page, branches,
                   staleBranches, mrs, staleMRs, expiredMRs, posted, titleVars, libVars>>

\* Mutant of inviteUsersToSlackChannel: the dry-run flag is not looked at.
inviteUsersToSlackChannel_ignoresDryRun ==
    /\ pc = "inviteUsersToSlackChannel"
    /\ \E res \in SlackResponses :
          calls' = Append(calls, Call("InviteUsersToConversation", 0, 0, res))
    /\ pc' = "buildAndPostSlackMessage"
    /\ UNCHANGED <<script, isDryRun, gitlabBranches, gitlabMRs, page, branches,
                   staleBranches, mrs, staleMRs, expiredMRs, idx,
                   slackUserIDByGitLabUserID, posted, titleVars, libVars>>

\* inviteUsersToSlackChannel: its error is printed and dropped.
inviteUsersToSlackChannel ==
    /\ pc = "inviteUsersToSlackChannel"
    /\ IF isDryRun
       THEN calls' = calls
       ELSE \E res \in SlackResponses :
               calls' = Append(calls, Call("InviteUsersToConversation", 0, 0, res))
    /\ pc' = "buildAndPostSlackMessage"
    /\ UNCHANGED <<script, isDryRun, gitlabBranches, gitlabMRs, page, branches,
                   staleBranches, mrs, staleMRs, expiredMRs, idx,
                   slackUserIDByGitLabUserID, posted, titleVars, libVars>>

\* Mutant of getSlackUserID: the zero value of a missing key is kept.
getSlackUserID_noDefault(m, mr) == IF mr.Author \in DOMAIN m THEN m[mr.Author] ELSE ""

\* getSlackUserID (script 2), the same lookup inline in script 1.
getSlackUserID(m, mr) == IF mr.Author \in DOMAIN m THEN m[mr.Author] ELSE "Unknown"

\* One line of the message: section, merge request, display title, issue
\* link, mentioned user.
MessageLine(section, m, mr) ==
    LET parts == parseMRTitle(mr.Title)
    IN  [section |-> section,
         IID |-> mr.IID,
         title |-> parts[1],
         jiraURL |-> parts[2],
         slackUserID |-> getSlackUserID(m, mr)]

\* The lines of the blocks buildAndPostSlackMessage builds.
MessageLines(stale, expired, m) ==
    [i \in 1..Len(stale) |-> MessageLine("stale", m, stale[i])]
    \o [i \in 1..Len(expired) |-> MessageLine("expired", m, expired[i])]

\* Mutant of buildAndPostSlackMessage: a failed post is tried again.
buildAndPostSlackMessage_retries ==
    /\ pc = "buildAndPostSlackMessage"
    /\ IF isDryRun
       THEN /\ pc' = "exit0"
            /\ UNCHANGED <<calls, posted>>
       ELSE \E res \in SlackResponses :
               /\ calls' = Append(calls, Call("PostMessage", 0, 0, res))
               /\ posted' = posted
               /\ pc' = IF res = "err" THEN pc ELSE "exit0"
    /\ UNCHANGED <<script, isDryRun, gitlabBranches, gitlabMRs, page, branches,
                   staleBranches, mrs, staleMRs, expiredMRs, idx,
                   slackUserIDByGitLabUserID, titleVars, libVars>>

buildAndPostSlackMessage ==
    /\ pc = "buildAndPostSlackMessage"
    /\ IF isDryRun
       THEN /\ pc' = "exit0"
            /\ UNCHANGED <<calls, posted>>
       ELSE \E res \in SlackResponses :
               /\ calls' = Append(calls, Call("PostMessage", 0, 0, res))
               /\ posted' = MessageLines(staleMRs, expiredMRs, slackUserIDByGitLabUserID)
               /\ pc' = IF res = "err" THEN "exit1" ELSE "exit0"
    /\ UNCHANGED <<script, isDryRun, gitlabBranches, gitlabMRs, page, branches,
                   staleBranches, mrs, staleMRs, expiredMRs, idx,
                   slackUserIDByGitLabUserID, titleVars, libVars>>

Next ==
    \/ getBranches
    \/ filterStaleNonProtectedBranches
    \/ deleteStaleBranches
    \/ getMergeRequests1
    \/ getMergeRequests2
    \/ filterStaleMergeRequests
    \/ closeExpiredMergeRequests_filter
    \/ closeExpiredMergeRequests_close
    \/ main
    \/ getSlackUserIDsFromGitLabUserIDs
    \/ inviteUsersToSlackChannel
    \/ buildAndPostSlackMessage

\* A run of either cleanup script.
Spec == Init /\ [][Next]_vars

(***************************************************************************)
(* The title functions on their own: every title of at most MaxTitleLen    *)
(* characters is given to getJiraIssueID and to parseMRTitle.              *)
(***************************************************************************)
InitTitle ==
    /\ RunIdle
    /\ title \in StringsUpTo(MaxTitleLen)
    /\ parsed = <<>>
    /\ LibIdle

\* The two functions a run applies to the title of a merge request.
ParseTitle ==
    /\ pc = "idle"
    /\ parsed = <<>>
    /\ parsed' = <<getJiraIssueID(title), parseMRTitle(title)>>
    /\ UNCHANGED <<runVars, title, libVars>>

SpecTitle == InitTitle /\ [][ParseTitle]_vars

(***************************************************************************)
(* Properties of a run (specification Spec).                               *)
(***************************************************************************)
\* The positions in calls of the calls of one API.
CallsTo(api) == {i \in 1..Len(calls) : calls[i].api = api}

\* The calls that change the server, or notify.
MutatingAPIs ==
    {"UpdateMergeRequest", "DeleteBranch", "InviteUsersToConversation", "PostMessage"}

\* The run has ended.
Exited == pc \in {"exit0", "exit1"}

\* C1: in a dry run of either script no call closes a merge request, deletes
\* a branch, invites users to the channel or posts a message, whatever the
\* servers answer.
C1_DryRunIssuesNoMutatingCall ==
    isDryRun => \A i \in 1..Len(calls) : calls[i].api \notin MutatingAPIs

\* A dry run of script 2 that ran to its end with a stale branch, a stale and
\* an expired merge request, having made its read calls.
C1_Witness ==
    /\ isDryRun
    /\ script = 2
    /\ pc = "exit0"
    /\ staleBranches # <<>>
    /\ staleMRs # <<>>
    /\ expiredMRs # <<>>
    /\ CallsTo("GetUserByEmail") # {}

\* The issue query made for a merge request answered with a closed issue.
IssueFoundClosed(mr) ==
    \E i \in CallsTo("Issue.Get") : calls[i].mr = mr.IID /\ calls[i].res = "Closed"

\* The issue query made for a merge request was answered (an issue, or 404).
IssueLookedUp(mr) ==
    \E i \in CallsTo("Issue.Get") :
        calls[i].mr = mr.IID /\ calls[i].res \in {"Closed", "Open", "404"}

\* The title holds a bracketed issue reference somewhere.
HasReference(t) == \E w \in 1..Len(t) : TokenEnds(t, w) # {}

\* The condition of the claim: last update before three months ago, or a
\* reference in the title to an issue that exists and is closed.
ExpiredAsClaimed(mr) ==
    \/ mr.UpdatedAt < Now - 3
    \/ HasReference(mr.Title) /\ IssueFoundClosed(mr)

\* C2: when closeExpiredMergeRequests returns without error, its list is the
\* input merge requests, in input order, that were last updated before three
\* months ago or whose title refers to an issue that exists and is closed
\* (the status of every such issue having been asked for); no other is in
\* it, none is missing.
C2_ExpiredListIsExact ==
    pc = "main" =>
        /\ expiredMRs = SelectSeq(mrs, ExpiredAsClaimed)
        /\ \A i \in 1..Len(mrs) :
              (~(mrs[i].UpdatedAt < Now - 3) /\ HasReference(mrs[i].Title))
                  => IssueLookedUp(mrs[i])

\* closeExpiredMergeRequests returned a list that keeps one of two merge
\* requests, for its closed issue and not for its age.
C2_Witness ==
    /\ pc = "main"
    /\ Len(mrs) = 2
    /\ Len(expiredMRs) = 1
    /\ ~(expiredMRs[1].UpdatedAt < Now - 3)
    /\ IssueFoundClosed(expiredMRs[1])

\* The internal ids of a list of merge requests.
IIDs(list) == {list[i].IID : i \in 1..Len(list)}

\* C3 (as claimed): no merge request is both in the stale list and in the
\* expired list of a run.
C3_StaleAndExpiredDisjoint ==
    pc = "main" => IIDs(staleMRs) \cap IIDs(expiredMRs) = {}

\* Every list call of the run was answered with status 200.
AllListCallsOK ==
    \A i \in CallsTo("ListProjectMergeRequests") \cup CallsTo("ListBranches") :
        calls[i].res = "200"

\* C4 (as claimed): in both scripts a successful fetch returns every item the
\* server holds, each once and in page order, for any number of pages.
C4_FetchReturnsEveryItem ==
    /\ (pc = "filterStaleMergeRequests" /\ AllListCallsOK) => mrs = gitlabMRs
    /\ (pc = "filterStaleNonProtectedBranches" /\ AllListCallsOK)
          => branches = gitlabBranches

\* C5: every DeleteBranch call of script 2 names a branch that is not
\* protected and whose last commit is before six months ago.
C5_DeletesOnlyStaleUnprotected ==
    \A i \in CallsTo("DeleteBranch") :
        LET b == gitlabBranches[calls[i].arg]
        IN  ~b.Protected /\ b.CommittedDate < Now - 6

\* deleteStaleBranches went through its list and deleted a branch, and the
\* server holds a protected branch as old that no call names.
C5_Witness ==
    /\ pc = "getMergeRequests"
    /\ \E i \in CallsTo("DeleteBranch") : calls[i].res = "200"
    /\ \E j \in 1..Len(gitlabBranches) :
          /\ gitlabBranches[j].Protected
          /\ gitlabBranches[j].CommittedDate < Now - 6
          /\ \A i \in CallsTo("DeleteBranch") : calls[i].arg # gitlabBranches[j].Name

\* The content of the last bracketed issue reference of a title.
ReferenceIn(t) ==
    LET w == CHOOSE x \in 1..Len(t) :
                 /\ TokenEnds(t, x) # {}
                 /\ \A y \in (x + 1)..Len(t) : TokenEnds(t, y) = {}
        e == CHOOSE x \in TokenEnds(t, w) : TRUE
    IN  SubSeq(t, w + 1, e - 1)

\* C6: every issue query is made for a merge request whose title holds an
\* issue reference, and asks for the issue that title refers to.
C6_IssueQueriedOnlyForReference ==
    \A i \in CallsTo("Issue.Get") :
        LET t == gitlabMRs[calls[i].mr].Title
        IN  HasReference(t) /\ calls[i].arg = ReferenceIn(t)

\* An issue was asked for, and a merge request without a reference was
\* passed over, in a run that went through the whole list.
C6_Witness ==
    /\ pc = "main"
    /\ CallsTo("Issue.Get") # {}
    /\ \E i \in 1..Len(mrs) : ~HasReference(mrs[i].Title) /\ ~(mrs[i].UpdatedAt < Now - 3)

\* The stage of the pipeline an API belongs to.
Stage(api) ==
    CASE api = "ListProjectMergeRequests" -> 1
      [] api = "Issue.Get" -> 2
      [] api = "UpdateMergeRequest" -> 3
      [] api = "GetUserByEmail" -> 4
      [] api = "InviteUsersToConversation" -> 5
      [] api = "PostMessage" -> 6
      [] OTHER -> 0

\* C9: the calls for merge requests are made in pipeline order (list calls,
\* issue queries, close calls, user lookups, the invite, the post); at most
\* one message is posted and nothing is called after it.
C9_CallsInPipelineOrder ==
    /\ \A i, j \in 1..Len(calls) :
          (i < j /\ Stage(calls[i].api) > 0) =>
              /\ Stage(calls[j].api) > 0
              /\ Stage(calls[i].api) <= Stage(calls[j].api)
    /\ \A i \in CallsTo("InviteUsersToConversation") :
          \A j \in CallsTo("GetUserByEmail") : j < i
    /\ Cardinality(CallsTo("PostMessage")) <= 1
    /\ \A i \in CallsTo("PostMessage") : i = Len(calls)

\* A run of script 2 that made a call of every stage.
C9_Witness ==
    /\ script = 2
    /\ pc = "exit0"
    /\ \A api \in {"ListBranches", "ListProjectMergeRequests", "Issue.Get",
                   "UpdateMergeRequest", "GetUserByEmail",
                   "InviteUsersToConversation", "PostMessage"} : CallsTo(api) # {}

\* Some lookup of the author succeeded.
LookupSucceeded(author) ==
    \E i \in CallsTo("GetUserByEmail") : calls[i].arg = author /\ calls[i].res = "ok"

\* Some lookup of the author failed.
LookupFailed(author) ==
    \E i \in CallsTo("GetUserByEmail") : calls[i].arg = author /\ calls[i].res = "err"

\* The merge requests the message lists, in order, with their sections.
Listed == [i \in 1..Len(posted) |-> <<posted[i].section, posted[i].IID>>]

ToList(section, list) == [i \in 1..Len(list) |-> <<section, list[i].IID>>]

\* The notification stage was entered.
Notifying ==
    pc \in {"getSlackUserIDsFromGitLabUserIDs", "inviteUsersToSlackChannel",
            "buildAndPostSlackMessage"}

\* The run failed in a call of the given API.
FailedIn(api) == pc = "exit1" /\ calls # <<>> /\ calls[Len(calls)].api = api

\* C10 (as claimed, its last part): the message names "Unknown" for every
\* author a lookup of whom failed.
C10_UnknownForEveryFailedLookup ==
    \A i \in 1..Len(posted) :
        LookupFailed(AuthorOf(posted[i].IID)) => posted[i].slackUserID = "Unknown"

\* C10 (amended): a failed user lookup or a failed invite never ends the run:
\* every stale and every expired merge request is looked up, and in a run
\* that is not a dry run the message is then posted, listing every stale and
\* every expired merge request, with the user id "Unknown" for each author
\* none of whose lookups succeeded, and the chat user id for the others.
C10_NotificationSurvivesFailures ==
    /\ ~FailedIn("GetUserByEmail")
    /\ ~FailedIn("InviteUsersToConversation")
    /\ (pc \in {"inviteUsersToSlackChannel", "buildAndPostSlackMessage"}) =>
          LET all == staleMRs \o expiredMRs
          IN  /\ Cardinality(CallsTo("GetUserByEmail")) = Len(all)
              /\ \A k \in 1..Len(all) :
                    \E i \in CallsTo("GetUserByEmail") :
                        calls[i].mr = all[k].IID /\ calls[i].arg = all[k].Author
    /\ (pc = "exit0" /\ ~isDryRun /\ Len(staleMRs) + Len(expiredMRs) > 0)
          => CallsTo("PostMessage") # {}
    /\ (CallsTo("PostMessage") # {}) =>
          /\ Listed = ToList("stale", staleMRs) \o ToList("expired", expiredMRs)
          /\ \A i \in 1..Len(posted) :
                posted[i].slackUserID =
                    IF LookupSucceeded(AuthorOf(posted[i].IID))
                    THEN SlackIDOf(AuthorOf(posted[i].IID))
                    ELSE "Unknown"

\* A message was posted after a failed lookup and a failed invite; it names
\* one author "Unknown" and another by the chat user id.
C10_Witness ==
    /\ pc = "exit0"
    /\ \E i \in CallsTo("InviteUsersToConversation") : calls[i].res = "err"
    /\ \E i \in 1..Len(posted) : posted[i].slackUserID = "Unknown"
    /\ \E i \in 1..Len(posted) : posted[i].slackUserID \notin {"Unknown", ""}
    /\ \E a \in {"u1", "u2"} : LookupFailed(a) /\ LookupSucceeded(a)

(***************************************************************************)
(* Properties of the title functions (specification SpecTitle).            *)
(***************************************************************************)
\* The position of the bracketed issue reference that ends the title, 0 when
\* the title does not end with one.
TrailingReference(t) ==
    LET ws == {w \in 1..Len(t) : Len(t) \in TokenEnds(t, w)}
    IN  IF ws = {} THEN 0 ELSE CHOOSE w \in ws : TRUE

\* C7 (as claimed): getJiraIssueID returns the content of the bracketed
\* reference that ends the title, and "" for every title that does not end
\* with one.
C7_ReferenceOnlyAtEndOfTitle ==
    parsed # <<>> =>
        parsed[1] = IF TrailingReference(title) = 0
                    THEN <<>>
                    ELSE SubSeq(title, TrailingReference(title) + 1, Len(title) - 1)

\* strings.TrimSpace
RECURSIVE TrimSpace(_)
TrimSpace(t) ==
    IF t = <<>> THEN t
    ELSE IF IsSpace(t[1]) THEN TrimSpace(Tail(t))
    ELSE IF IsSpace(t[Len(t)]) THEN TrimSpace(SubSeq(t, 1, Len(t) - 1))
    ELSE t

\* C8 (as claimed): when a reference is extracted, the display title of
\* parseMRTitle is the text before the bracketed token, trimmed; otherwise
\* parseMRTitle returns the title unchanged and an empty link.
C8_DisplayTitleIsTrimmed ==
    parsed # <<>> =>
        IF parsed[1] # <<>>
        THEN \E w \in 1..Len(title) :
                /\ TokenEnds(title, w) # {}
                /\ parsed[2][1] = TrimSpace(SubSeq(title, 1, w - 1))
        ELSE parsed[2] = <<title, <<>>>>


(***************************************************************************)
(* The config sort linter (src/unnamed/part_002, lines 11-55).  A line is  *)
(* a sequence of characters, as a title is.                                *)
(***************************************************************************)
\* Most lines of a file.
MaxLines == 3

\* The lines a file is made of: empty, blank, comments, table headers, keys.
ConfigLines ==
    { <<>>,
      <<" ">>,
      <<"#", "a">>,
      <<" ", "#">>,
      <<"[", "a", "]">>,
      <<"[", "b", "]">>,
      <<" ", "[", "a", "]">>,
      <<"a">>,
      <<"b">>,
      <<"b", "=", "a">>,
      <<" ", "a", "=">>,
      <<"=">> }

\* The files of at most MaxLines lines.
ConfigFiles == UNION {[1..k -> ConfigLines] : k \in 0..MaxLines}

\* The byte of a character.
CharCode(c) ==
    CASE c = " " -> 32
      [] c = "#" -> 35
      [] c = "=" -> 61
      [] c = "[" -> 91
      [] c = "]" -> 93
      [] c = "a" -> 97
      [] c = "b" -> 98

\* s < t on strings: byte-wise lexicographic order.
RECURSIVE StringLess(_, _)
StringLess(s, t) ==
    IF t = <<>> THEN FALSE
    ELSE IF s = <<>> THEN TRUE
    ELSE IF s[1] = t[1] THEN StringLess(Tail(s), Tail(t))
    ELSE CharCode(s[1]) < CharCode(t[1])

\* tableRegexp.MatchString: "[" first, "]" last, any characters between.
tableRegexp(line) ==
    Len(line) >= 2 /\ line[1] = "[" /\ line[Len(line)] = "]"

\* strings.Split(line, "=")[0]: the text before the first "=".
RECURSIVE SplitFirst(_)
SplitFirst(line) ==
    IF line = <<>> \/ line[1] = "=" THEN <<>>
    ELSE <<line[1]>> \o SplitFirst(Tail(line))

\* currKey.
CurrKey(line) == TrimSpace(SplitFirst(line))

\* currTable.
CurrTable(line) == SubSeq(line, 2, Len(line) - 1)

InitLint ==
    /\ RunIdle
    /\ TitleIdle
    /\ RecoverIdle
    /\ MergeIdle
    /\ ExtremumIdle
    /\ file \in ConfigFiles
    /\ scanned = 0
    /\ previousTable = <<>>
    /\ previousKey = <<>>
    /\ exit = "running"
    /\ compared = <<>>

\* os.Open fails: message and exit 1 before any line is read.
OpenErr ==
    /\ exit = "running"
    /\ scanned = 0
    /\ exit' = "openError"
    /\ UNCHANGED <<runVars, titleVars, recoverVars, mergeVars, extremumVars,
                   file, scanned, previousTable, previousKey, compared>>

\* One iteration of the scanner loop.  Indexing the empty string that
\* TrimSpace returns for a blank line is a run-time panic.
ScanLine ==
    /\ exit = "running"
    /\ scanned < Len(file)
    /\ scanned' = scanned + 1
    /\ LET line == file[scanned + 1] IN
        IF line = <<>>
        THEN UNCHANGED <<previousTable, previousKey, exit, compared>>
        ELSE IF TrimSpace(line) = <<>>
        THEN /\ exit' = "panic"
             /\ UNCHANGED <<previousTable, previousKey, compared>>
        ELSE IF TrimSpace(line)[1] = "#"
        THEN UNCHANGED <<previousTable, previousKey, exit, compared>>
        ELSE IF tableRegexp(line)
        THEN /\ compared' = Append(compared, scanned + 1)
             /\ IF StringLess(CurrTable(line), previousTable)
                THEN /\ exit' = "notSorted"
                     /\ UNCHANGED <<previousTable, previousKey>>
                ELSE /\ previousTable' = CurrTable(line)
                     /\ previousKey' = <<>>
                     /\ UNCHANGED exit
        ELSE /\ compared' = Append(compared, scanned + 1)
             /\ IF StringLess(CurrKey(line), previousKey)
                THEN /\ exit' = "notSorted"
                     /\ UNCHANGED <<previousTable, previousKey>>
                ELSE /\ previousKey' = CurrKey(line)
                     /\ UNCHANGED <<previousTable, exit>>
    /\ UNCHANGED <<runVars, titleVars, recoverVars, mergeVars, extremumVars,
                   file>>

\* scanner.Scan returns false at the end of the file: main returns.
ScanEOF ==
    /\ exit = "running"
    /\ scanned = Len(file)
    /\ exit' = "sorted"
    /\ UNCHANGED <<runVars, titleVars, recoverVars, mergeVars, extremumVars,
                   file, scanned, previousTable, previousKey, compared>>

\* scanner.Scan returns false on a read error: scanner.Err is not nil.
ScanErr ==
    /\ exit = "running"
    /\ scanned < Len(file)
    /\ exit' = "scanError"
    /\ UNCHANGED <<runVars, titleVars, recoverVars, mergeVars, extremumVars,
                   file, scanned, previousTable, previousKey, compared>>

NextLint == OpenErr \/ ScanLine \/ ScanEOF \/ ScanErr

\* A run of the linter on one file.
SpecLint == InitLint /\ [][NextLint]_vars


(***************************************************************************)
(* Properties of the linter (specification SpecLint).                      *)
(***************************************************************************)
\* A comment line: its first non-blank character is "#".
IsCommentLine(line) ==
    \E i \in 1..Len(line) :
        line[i] = "#" /\ \A j \in 1..(i - 1) : IsSpace(line[j])

\* The file has only non-empty, non-comment lines.
OnlySignificantLines ==
    \A i \in 1..Len(file) : file[i] # <<>> /\ ~IsCommentLine(file[i])

\* Line i of such a file is out of order: a table header smaller than the
\* table header before it, or a key smaller than the key just before it in
\* the same table.
OutOfOrder(i) ==
    IF tableRegexp(file[i])
    THEN \E j \in 1..(i - 1) :
            /\ tableRegexp(file[j])
            /\ \A k \in (j + 1)..(i - 1) : ~tableRegexp(file[k])
            /\ StringLess(CurrTable(file[i]), CurrTable(file[j]))
    ELSE /\ i > 1
         /\ ~tableRegexp(file[i - 1])
         /\ StringLess(CurrKey(file[i]), CurrKey(file[i - 1]))

OutOfOrderLines == {i \in 1..Len(file) : OutOfOrder(i)}

\* The linter has ended and every line it asked for was read.
LintEnded == exit \in {"sorted", "notSorted", "panic"}

\* C11 (as claimed): on a file of non-empty, non-comment lines the linter
\* exits normally when no line is out of order, and otherwise exits with the
\* "not sorted" failure at the first line that is out of order.
C11_FailsExactlyOnFirstUnsortedLine ==
    (LintEnded /\ OnlySignificantLines) =>
        IF OutOfOrderLines = {}
        THEN exit = "sorted"
        ELSE /\ exit = "notSorted"
             /\ \A i \in OutOfOrderLines : scanned <= i
             /\ scanned \in OutOfOrderLines

\* C18 (as claimed): no empty line and no comment line is compared, and the
\* linter ends in a normal exit or in a message and exit 1, never in a
\* run-time panic.
C18_SkipsCommentsAndNeverCrashes ==
    /\ \A n \in 1..Len(compared) :
          file[compared[n]] # <<>> /\ ~IsCommentLine(file[compared[n]])
    /\ exit \in {"running", "sorted", "notSorted", "openError", "scanError"}


(***************************************************************************)
(* The panic-recovery helpers (src/unnamed/part_000).  Each goroutine      *)
(* defers one helper, runs its body, which returns or panics, and then     *)
(* runs the deferred call: recover, log, cleanup.                          *)
(***************************************************************************)
\* The number of goroutines.
NumGoroutines == 2

Goroutines == 1..NumGoroutines

\* The arguments a body gives to panic.
PanicArgs == {"nil", "boom"}

\* The value of the panic that panic(v) starts: with the go 1.21.3 of go.mod
\* a nil argument becomes a run-time error value.
PanicValue(v) == IF v = "nil" THEN "PanicNilError" ELSE v

\* The helper and the cleanup function of one goroutine.
Deferrals ==
    { <<"RecoverAndLog", "none">>,
      <<"RecoverAndLogWithCleanup", "returns">>,
      <<"RecoverAndLogWithCleanup", "panics">> }

InitRecover ==
    /\ RunIdle
    /\ TitleIdle
    /\ LintIdle
    /\ MergeIdle
    /\ ExtremumIdle
    /\ \E d \in [Goroutines -> Deferrals] :
          /\ deferred = [g \in Goroutines |-> d[g][1]]
          /\ cleanup = [g \in Goroutines |-> d[g][2]]
    /\ direct \in [Goroutines -> BOOLEAN]
    /\ gpc = [g \in Goroutines |-> "body"]
    /\ panicking = [g \in Goroutines |-> "none"]
    /\ err = [g \in Goroutines |-> "none"]
    /\ trace = [g \in Goroutines |-> <<>>]
    /\ ended = [g \in Goroutines |-> "running"]

\* The body of the goroutine returns: the deferred call runs.
Return(g) ==
    /\ gpc[g] = "body"
    /\ gpc' = [gpc EXCEPT ![g] = "recover"]
    /\ ended' = [ended EXCEPT ![g] = "returned"]
    /\ UNCHANGED <<runVars, titleVars, lintVars, mergeVars, extremumVars,
                   deferred, direct, cleanup, panicking, err, trace>>

\* The body of the goroutine panics: the deferred call runs.
Panic(g) ==
    /\ gpc[g] = "body"
    /\ \E v \in PanicArgs : panicking' = [panicking EXCEPT ![g] = PanicValue(v)]
    /\ gpc' = [gpc EXCEPT ![g] = "recover"]
    /\ ended' = [ended EXCEPT ![g] = "panicked"]
    /\ UNCHANGED <<runVars, titleVars, lintVars, mergeVars, extremumVars,
                   deferred, direct, cleanup, err, trace>>

\* What recover returns in the helper: the value of the panic when the
\* helper is the deferred function itself, nil otherwise.
Recovered(g) == IF direct[g] THEN panicking[g] ELSE "none"

\* The test of err left out: the helper logs whatever recover returned.
AfterRecover_noNilTest(g) == "log"

\* if err := recover(); err != nil: the position after the test.
AfterRecover(g) ==
    IF Recovered(g) # "none" THEN "log"
    ELSE IF panicking[g] # "none" THEN "crashed"
    ELSE "done"

\* err := recover() and the test of err.  A recovered panic stops; one that
\* recover does not see goes on when the helper returns, and ends the program.
recover(g) ==
    /\ gpc[g] = "recover"
    /\ err' = [err EXCEPT ![g] = Recovered(g)]
    /\ panicking' = [panicking EXCEPT ![g] =
                        IF direct[g] THEN "none" ELSE panicking[g]]
    /\ gpc' = [gpc EXCEPT ![g] = AfterRecover(g)]
    /\ UNCHANGED <<runVars, titleVars, lintVars, mergeVars, extremumVars,
                   deferred, direct, cleanup, trace, ended>>

\* log(err).
log(g) ==
    /\ gpc[g] = "log"
    /\ trace' = [trace EXCEPT ![g] = Append(trace[g], <<"log", err[g]>>)]
    /\ gpc' = [gpc EXCEPT ![g] =
                  IF deferred[g] = "RecoverAndLogWithCleanup"
                  THEN "cleanup" ELSE "done"]
    /\ UNCHANGED <<runVars, titleVars, lintVars, mergeVars, extremumVars,
                   deferred, direct, cleanup, panicking, err, ended>>

\* cleanup().  A panic of the cleanup function is a new panic that nothing
\* recovers.
Cleanup(g) ==
    /\ gpc[g] = "cleanup"
    /\ trace' = [trace EXCEPT ![g] = Append(trace[g], <<"cleanup">>)]
    /\ IF cleanup[g] = "panics"
       THEN /\ panicking' = [panicking EXCEPT ![g] = "cleanup panic"]
            /\ gpc' = [gpc EXCEPT ![g] = "crashed"]
       ELSE /\ gpc' = [gpc EXCEPT ![g] = "done"]
            /\ UNCHANGED panicking
    /\ UNCHANGED <<runVars, titleVars, lintVars, mergeVars, extremumVars,
                   deferred, direct, cleanup, err, ended>>

\* A panic that leaves a goroutine ends the program: no goroutine goes on.
NextRecover ==
    /\ \A h \in Goroutines : gpc[h] # "crashed"
    /\ \E g \in Goroutines :
          Return(g) \/ Panic(g) \/ recover(g) \/ log(g) \/ Cleanup(g)

\* Goroutines that each defer a helper.
SpecRecover == InitRecover /\ [][NextRecover]_vars


(***************************************************************************)
(* Properties of the helpers (specification SpecRecover).                  *)
(***************************************************************************)
\* What was logged and called by goroutine g, without the logged values.
Kinds(g) == [n \in 1..Len(trace[g]) |-> trace[g][n][1]]

\* What a goroutine that panicked logs and calls.
ExpectedKinds(g) ==
    IF deferred[g] = "RecoverAndLogWithCleanup"
    THEN <<"log", "cleanup">>
    ELSE <<"log">>

\* C12: for a goroutine that deferred a helper directly: if its body
\* panicked, the panic is stopped by the deferred call, it is logged once,
\* and with RecoverAndLogWithCleanup the cleanup function is then called
\* once, after the logging, the only panic that can leave the goroutine
\* being one of the cleanup function itself; if its body returned, nothing is
\* logged and the cleanup function is never called.
C12_PanicLoggedThenCleanupOnce ==
    \A g \in Goroutines :
        direct[g] =>
            /\ ended[g] # "panicked" =>
                  /\ trace[g] = <<>>
                  /\ gpc[g] \in {"body", "recover", "done"}
                  /\ panicking[g] = "none"
            /\ ended[g] = "panicked" =>
                  /\ gpc[g] \in {"recover", "log", "cleanup", "done", "crashed"}
                  /\ gpc[g] = "recover" => trace[g] = <<>>
                  /\ gpc[g] = "log" => trace[g] = <<>> /\ panicking[g] = "none"
                  /\ gpc[g] = "cleanup" =>
                        /\ Kinds(g) = <<"log">>
                        /\ deferred[g] = "RecoverAndLogWithCleanup"
                        /\ panicking[g] = "none"
                  /\ gpc[g] = "done" =>
                        Kinds(g) = ExpectedKinds(g) /\ panicking[g] = "none"
                  /\ gpc[g] = "crashed" =>
                        /\ Kinds(g) = <<"log", "cleanup">>
                        /\ cleanup[g] = "panics"
                        /\ panicking[g] = "cleanup panic"

\* Two goroutines are done: one panicked, was logged and then cleaned up
\* once, the other returned with nothing logged.
C12_Witness ==
    \E g, h \in Goroutines :
        /\ direct[g] /\ direct[h]
        /\ deferred[g] = "RecoverAndLogWithCleanup"
        /\ deferred[h] = "RecoverAndLogWithCleanup"
        /\ ended[g] = "panicked" /\ gpc[g] = "done"
        /\ trace[g] = <<<<"log", "PanicNilError">>, <<"cleanup">>>>
        /\ ended[h] = "returned" /\ gpc[h] = "done" /\ trace[h] = <<>>


(***************************************************************************)
(* maps.Merge (src/maps/maps.go, lines 37-49).                             *)
(***************************************************************************)
\* The keys are 1..MaxKeys.
MaxKeys == 2

Keys == 1..MaxKeys

Values == {"x", "y"}

\* The maps from keys to values.
Maps == UNION {[D -> Values] : D \in SUBSET Keys}

\* The addresses of the maps the caller holds.
Addresses == {1, 2}

\* The map at an address; a nil map reads as an empty map.
MapAt(a) == IF a = 0 THEN EmptyMap ELSE heap[a]

\* for k, v := range src { res[k] = v }, over the keys left to visit.
RECURSIVE Range(_, _, _)
Range(res, src, keys) ==
    IF keys = {} THEN res
    ELSE LET key == CHOOSE key \in keys : TRUE
         IN  Range(MapSet(res, key, src[key]), src, keys \ {key})

\* The two loops in the other order.
Merge_m1First(c1, c2) ==
    Range(Range(EmptyMap, c1, DOMAIN c1), c2, DOMAIN c2)

\* The content of result at the return of Merge.
Merge(c1, c2) ==
    Range(Range(EmptyMap, c2, DOMAIN c2), c1, DOMAIN c1)

InitMerge ==
    /\ RunIdle
    /\ TitleIdle
    /\ LintIdle
    /\ RecoverIdle
    /\ ExtremumIdle
    /\ heap \in [Addresses -> Maps]
    /\ m1 \in {0} \cup Addresses
    /\ m2 \in {0} \cup Addresses
    /\ merged = 0

\* A call of Merge(m1, m2): make allocates result, the loops fill it.
MergeCall ==
    /\ merged = 0
    /\ LET result == Cardinality(DOMAIN heap) + 1 IN
        /\ heap' = [a \in DOMAIN heap \cup {result} |->
                       IF a = result THEN Merge(MapAt(m1), MapAt(m2))
                       ELSE heap[a]]
        /\ merged' = result
    /\ UNCHANGED <<runVars, titleVars, lintVars, recoverVars, extremumVars,
                   m1, m2>>

\* One call of Merge on two maps, which may be nil or the same map.
SpecMerge == InitMerge /\ [][MergeCall]_vars

(***************************************************************************)
(* Properties of Merge (specification SpecMerge).                          *)
(***************************************************************************)
\* C13: a call of Merge returns a map that was not allocated before; its keys
\* are those of m1 and those of m2; a key of m1 has the value of m1, also when
\* m2 has the key, and a key of m2 only has the value of m2; the maps that
\* existed before the call, m1 and m2 among them, are as they were.
C13_MergeUnionFirstWins ==
    [][ merged' # merged =>
          /\ merged' \notin {0} \cup DOMAIN heap
          /\ DOMAIN heap'[merged'] = DOMAIN MapAt(m1) \cup DOMAIN MapAt(m2)
          /\ \A key \in DOMAIN MapAt(m1) : heap'[merged'][key] = MapAt(m1)[key]
          /\ \A key \in DOMAIN MapAt(m2) \ DOMAIN MapAt(m1) :
                heap'[merged'][key] = MapAt(m2)[key]
          /\ \A a \in DOMAIN heap : heap'[a] = heap[a]
          /\ m1' = m1 /\ m2' = m2 ]_vars

\* Merge has returned; m1 and m2 are two maps that give different values to
\* a common key, and m2 has a key that m1 has not.
C13_Witness ==
    /\ merged # 0
    /\ m1 # 0 /\ m2 # 0 /\ m1 # m2
    /\ \E key \in DOMAIN heap[m1] \cap DOMAIN heap[m2] :
          /\ heap[m1][key] # heap[m2][key]
          /\ heap[merged][key] = heap[m1][key]
    /\ \E key \in DOMAIN heap[m2] \ DOMAIN heap[m1] :
          heap[merged][key] = heap[m2][key]


(***************************************************************************)
(* slices.Max and slices.Min (src/slices/slices.go, lines 36-61) with the  *)
(* predicates of package maths (src/unnamed/part_002, lines 77-83).  The   *)
(* element type is a floating-point type: an element is a number or NaN.   *)
(***************************************************************************)
\* Longest slice.
MaxSliceLen == 3

NaN == [nan |-> TRUE, val |-> 0]

Number(n) == [nan |-> FALSE, val |-> n]

\* The elements of the slices.
Elems == {Number(-1), Number(0), Number(1), NaN}

\* var zero T.
Zero == Number(0)

\* The slices of at most MaxSliceLen elements; the nil slice has length 0.
Slices == UNION {[1..n -> Elems] : n \in 0..MaxSliceLen}

\* a < b: false when either operand is NaN.
LessThan(a, b) == ~a.nan /\ ~b.nan /\ a.val < b.val

\* a > b: false when either operand is NaN.
GreaterThan(a, b) == ~a.nan /\ ~b.nan /\ a.val > b.val

\* The function values maths.LessThan and maths.GreaterThan.
LessThanFn == [p \in Elems \X Elems |-> LessThan(p[1], p[2])]

GreaterThanFn == [p \in Elems \X Elems |-> GreaterThan(p[1], p[2])]

\* result starts as the zero value instead of items[0].
extremum_fromZero(items, predicate) ==
    LET result[n \in 0..Len(items)] ==
            IF n = 0 THEN Zero
            ELSE IF predicate[<<items[n], result[n - 1]>>] THEN items[n]
            ELSE result[n - 1]
    IN  result[Len(items)]

\* extremum: result[n] is result after n iterations of the loop.
extremum(items, predicate) ==
    IF Len(items) = 0 THEN Zero
    ELSE LET result[n \in 0..Len(items)] ==
                 IF n = 0 THEN items[1]
                 ELSE IF predicate[<<items[n], result[n - 1]>>] THEN items[n]
                 ELSE result[n - 1]
         IN  result[Len(items)]

Max(items) == extremum(items, GreaterThanFn)

Min(items) == extremum(items, LessThanFn)

InitExtremum ==
    /\ RunIdle
    /\ TitleIdle
    /\ LintIdle
    /\ RecoverIdle
    /\ MergeIdle
    /\ slice \in Slices
    /\ maxOf = <<>>
    /\ minOf = <<>>

\* A call of Max on the slice.
MaxCall ==
    /\ maxOf = <<>>
    /\ maxOf' = <<Max(slice)>>
    /\ UNCHANGED <<runVars, titleVars, lintVars, recoverVars, mergeVars,
                   slice, minOf>>

\* A call of Min on the slice.
MinCall ==
    /\ minOf = <<>>
    /\ minOf' = <<Min(slice)>>
    /\ UNCHANGED <<runVars, titleVars, lintVars, recoverVars, mergeVars,
                   slice, maxOf>>

NextExtremum == MaxCall \/ MinCall

\* Max and Min called on one slice.
SpecExtremum == InitExtremum /\ [][NextExtremum]_vars

(***************************************************************************)
(* Properties of Max and Min (specification SpecExtremum).                 *)
(***************************************************************************)
\* a >= b and a <= b: false when either operand is NaN.
GreaterOrEqual(a, b) == ~a.nan /\ ~b.nan /\ a.val >= b.val

LessOrEqual(a, b) == ~a.nan /\ ~b.nan /\ a.val <= b.val

IsElement(e) == \E n \in 1..Len(slice) : slice[n] = e

NoNaN == \A n \in 1..Len(slice) : ~slice[n].nan

\* C14 (as claimed): on a non-empty slice Max returns an element that is >=
\* every element and Min one that is <= every element; on an empty slice
\* both return the zero value.
C14_ExtremumBoundsEveryElement ==
    /\ maxOf # <<>> =>
          IF slice = <<>> THEN maxOf[1] = Zero
          ELSE /\ IsElement(maxOf[1])
               /\ \A n \in 1..Len(slice) : GreaterOrEqual(maxOf[1], slice[n])
    /\ minOf # <<>> =>
          IF slice = <<>> THEN minOf[1] = Zero
          ELSE /\ IsElement(minOf[1])
               /\ \A n \in 1..Len(slice) : LessOrEqual(minOf[1], slice[n])

\* C14 (amended): on a non-empty slice Max and Min return an element of the
\* slice, which is >= (resp. <=) every element when no element is NaN; on an
\* empty slice both return the zero value.
C14_ExtremumOfOrderedElements ==
    /\ maxOf # <<>> =>
          IF slice = <<>> THEN maxOf[1] = Zero
          ELSE /\ IsElement(maxOf[1])
               /\ NoNaN =>
                    \A n \in 1..Len(slice) : GreaterOrEqual(maxOf[1], slice[n])
    /\ minOf # <<>> =>
          IF slice = <<>> THEN minOf[1] = Zero
          ELSE /\ IsElement(minOf[1])
               /\ NoNaN =>
                    \A n \in 1..Len(slice) : LessOrEqual(minOf[1], slice[n])

\* Max and Min have returned on a slice of numbers whose first element is
\* neither the greatest nor the smallest.
C14_Witness ==
    /\ maxOf # <<>> /\ minOf # <<>>
    /\ slice # <<>> /\ NoNaN
    /\ maxOf[1] # slice[1] /\ minOf[1] # slice[1]
    /\ maxOf[1].val < 0 \/ minOf[1].val < 0


(***************************************************************************)
(* Properties of a run: failures of the servers (specification Spec).      *)
(***************************************************************************)
\* The calls that close a merge request or use the chat.
CloseAndChatAPIs ==
    {"UpdateMergeRequest", "GetUserByEmail", "InviteUsersToConversation",
     "PostMessage"}

\* C15: an issue query that fails with anything but a 404 response is the
\* last call of the run, which exits with failure having made no call that
\* closes a merge request and no chat call; after a 404 response the merge
\* request is not in the expired list and the run has not failed.
C15_IssueQueryFailureEndsRun ==
    \A i \in CallsTo("Issue.Get") :
        /\ calls[i].res \in {"400", "500", "err"} =>
              /\ i = Len(calls)
              /\ pc = "exit1"
              /\ \A j \in 1..Len(calls) : calls[j].api \notin CloseAndChatAPIs
        /\ calls[i].res = "404" =>
              /\ calls[i].mr \notin IIDs(expiredMRs)
              /\ i = Len(calls) => pc # "exit1"

\* A run that went on after a 404 for one merge request and ended at the
\* failed query for the next one.
C15_Witness ==
    /\ pc = "exit1"
    /\ \E i, j \in CallsTo("Issue.Get") :
          /\ i < j
          /\ calls[i].res = "404"
          /\ calls[j].res = "500"
          /\ j = Len(calls)

\* The calls to the source-control server.
GitLabAPIs ==
    {"ListProjectMergeRequests", "ListBranches", "UpdateMergeRequest",
     "DeleteBranch"}

\* The call was answered with a status code of 400 or more.
AnsweredWithErrorStatus(c) ==
    c.api \in GitLabAPIs /\ c.res # "err" /\ StatusCode(c.res) >= 400

\* C16 (as claimed): in both scripts a source-control call answered with a
\* status code of 400 or more is the last call of the run, which exits with
\* failure.
C16_ErrorStatusEndsRun ==
    \A i \in 1..Len(calls) :
        AnsweredWithErrorStatus(calls[i]) => i = Len(calls) /\ pc = "exit1"

\* The close calls of the run, in order.
CloseCalls == SelectSeq(calls, LAMBDA c : c.api = "UpdateMergeRequest")

\* The close call failed: an error, or a status code of 400 or more.
CloseFailed(c) ==
    c.api = "UpdateMergeRequest" /\ (c.res = "err" \/ StatusCode(c.res) >= 400)

\* C17 (as claimed): in a non-dry run the close calls are for the expired
\* merge requests in list order, one each at most; a close call that fails is
\* the last call of the run, which exits with failure; a message is posted
\* only when every expired merge request had a close call that succeeded.
C17_CloseInOrderStopAtFailure ==
    ~isDryRun =>
        /\ Len(CloseCalls) <= Len(expiredMRs)
        /\ \A n \in 1..Len(CloseCalls) : CloseCalls[n].mr = expiredMRs[n].IID
        /\ \A i \in 1..Len(calls) :
              CloseFailed(calls[i]) => i = Len(calls) /\ pc = "exit1"
        /\ CallsTo("PostMessage") # {} =>
              /\ Len(CloseCalls) = Len(expiredMRs)
              /\ \A n \in 1..Len(CloseCalls) : ~CloseFailed(CloseCalls[n])

====
